---- MODULE Spec2Model ----
(***************************************************************************)
(* Model of the retrieval layer of cobwebAI-llmlib: VectorDB               *)
(* (src/cobwebai_lib/vdb.py) over a ChromaDB backend, and the legacy RAG   *)
(* class (src/cobwebai_lib/rag.py) over the same backend.                  *)
(* Further sections model the attachment router and the note generation   *)
(* of LLMTools (src/cobwebai_lib/llm.py, text.py) and VectorDB calls whose *)
(* backend requests interleave.                                            *)
(*                                                                         *)
(* Texts are sequences of one-character strings.  The splitter's sizes are *)
(* scaled down (chunk_size 1000 -> 3, chunk_overlap 200 -> 1) so that      *)
(* multi-chunk texts, overlapping windows and repeated windows occur in    *)
(* texts of a few characters.                                              *)
(***************************************************************************)
EXTENDS Integers, Sequences, FiniteSets, TLC

\* ------------------------------------------------------------------ bounds
MaxTextLen == 5
MaxResults == 2
MaxChunks == 2
MaxTasks == 2
MaxAttachments == 2

\* ------------------------------------------------- scaled program constants
chunk_size == 3
chunk_overlap == 1

\* ------------------------------------------------------------ input domains
Chars == {"a", " "}
UUIDs == {1, 2}
None == 0

RECURSIVE SeqsUpTo(_, _)
SeqsUpTo(S, n) ==
    IF n = 0 THEN {<<>>}
    ELSE LET shorter == SeqsUpTo(S, n - 1)
         IN  shorter \cup {Append(s, c) : s \in {x \in shorter : Len(x) = n - 1}, c \in S}

\* every text of at most MaxTextLen characters: the splitter's input domain
Texts == SeqsUpTo(Chars, MaxTextLen)

\* the texts the operations are called with: empty, whitespace only, one
\* chunk, one chunk plus trailing whitespace, another single chunk, two
\* chunks (each of a content one of the single chunks has too, one of them
\* at another offset) and two windows of identical content
DocTexts ==
    { <<>>, <<" ">>, <<"a">>, <<"a", " ">>, <<"a", "a">>,
      <<"a", " ", "a", "a">>, <<"a", " ", " ", "a">> }

\* --------------------------------------------------------- string helpers
IsSpace(c) == c \in {" ", "\n"}

Slice(s, i, j) == IF j < i THEN <<>> ELSE SubSeq(s, i, j)

RECURSIVE LStrip(_)
LStrip(s) == IF s # <<>> /\ IsSpace(Head(s)) THEN LStrip(Tail(s)) ELSE s

RECURSIVE RStrip(_)
RStrip(s) ==
    IF s # <<>> /\ IsSpace(s[Len(s)]) THEN RStrip(SubSeq(s, 1, Len(s) - 1)) ELSE s

\* str.strip()
Strip(s) == RStrip(LStrip(s))

\* sub occurs in s at 1-based position i
OccursAt(s, sub, i) ==
    /\ i >= 1
    /\ i + Len(sub) - 1 <= Len(s)
    /\ SubSeq(s, i, i + Len(sub) - 1) = sub

\* str.find(sub, start): 0-based index of the first occurrence at or after
\* start, -1 when there is none
Find(s, sub, start) ==
    LET hits == {i \in (start + 1)..(Len(s) + 1) : OccursAt(s, sub, i)}
    IN  IF hits = {} THEN -1
        ELSE (CHOOSE i \in hits : \A j \in hits : i <= j) - 1

RECURSIVE Join(_, _)
Join(ss, sep) ==
    IF ss = <<>> THEN <<>>
    ELSE IF Len(ss) = 1 THEN ss[1]
    ELSE ss[1] \o sep \o Join(Tail(ss), sep)

\* ------------------------------ RecursiveCharacterTextSplitter (vdb.py:42-46)
separators == << <<"\n", "\n">>, <<"\n">>, <<" ">>, <<>> >>

\* re.search(re.escape(sep), text)
Contains(text, sep) == \E i \in 1..(Len(text) + 1) : OccursAt(text, sep, i)

\* start positions of the non-overlapping matches of sep, left to right
RECURSIVE MatchStarts(_, _, _)
MatchStarts(text, sep, i) ==
    IF i + Len(sep) - 1 > Len(text) THEN <<>>
    ELSE IF OccursAt(text, sep, i)
         THEN <<i>> \o MatchStarts(text, sep, i + Len(sep))
         ELSE MatchStarts(text, sep, i + 1)

\* _split_text_with_regex with keep_separator=True: every match opens a new
\* piece that starts with the separator; the empty separator splits into
\* characters; empty pieces are dropped
split_text_with_regex(text, separator) ==
    LET starts == MatchStarts(text, separator, 1)
        n      == Len(starts)
        pieces ==
            IF separator = <<>> THEN [i \in 1..Len(text) |-> <<text[i]>>]
            ELSE IF n = 0 THEN <<text>>
            ELSE <<Slice(text, 1, starts[1] - 1)>> \o
                 [k \in 1..n |->
                    Slice(text, starts[k],
                          IF k < n THEN starts[k + 1] - 1 ELSE Len(text))]
    IN  SelectSeq(pieces, LAMBDA p : p # <<>>)

\* TextSplitter._join_docs: joined and stripped; <<>> stands for None
join_docs(docs, separator) == Strip(Join(docs, separator))

\* the inner while loop of _merge_splits: drop pieces from the front of the
\* current window until what is kept fits the overlap and leaves room for d
RECURSIVE PopWindow(_, _, _, _)
PopWindow(cur, total, dlen, seplen) ==
    IF \/ total > chunk_overlap
       \/ /\ total + dlen + (IF Len(cur) > 0 THEN seplen ELSE 0) > chunk_size
          /\ total > 0
    THEN PopWindow(Tail(cur),
                   total - (Len(Head(cur)) + (IF Len(cur) > 1 THEN seplen ELSE 0)),
                   dlen, seplen)
    ELSE [cur |-> cur, total |-> total]

\* TextSplitter._merge_splits
RECURSIVE MergeLoop(_, _, _, _, _)
MergeLoop(splits, separator, docs, cur, total) ==
    LET seplen == Len(separator)
    IN  IF splits = <<>>
        THEN LET doc == join_docs(cur, separator)
             IN  IF doc # <<>> THEN Append(docs, doc) ELSE docs
        ELSE LET d      == Head(splits)
                 dlen   == Len(d)
                 over   == total + dlen + (IF Len(cur) > 0 THEN seplen ELSE 0) > chunk_size
                 flush  == over /\ Len(cur) > 0
                 doc    == join_docs(cur, separator)
                 docs2  == IF flush /\ doc # <<>> THEN Append(docs, doc) ELSE docs
                 w      == IF flush THEN PopWindow(cur, total, dlen, seplen)
                           ELSE [cur |-> cur, total |-> total]
                 cur2   == Append(w.cur, d)
                 total2 == w.total + dlen + (IF Len(cur2) > 1 THEN seplen ELSE 0)
             IN  MergeLoop(Tail(splits), separator, docs2, cur2, total2)

merge_splits(splits, separator) == MergeLoop(splits, separator, <<>>, <<>>, 0)

\* index of the separator RecursiveCharacterTextSplitter._split_text picks:
\* the first one that is empty or occurs in the text, else the last one
PickSeparator(text, seps) ==
    LET hits == {i \in 1..Len(seps) : seps[i] = <<>> \/ Contains(text, seps[i])}
    IN  IF hits = {} THEN Len(seps)
        ELSE CHOOSE i \in hits : \A j \in hits : i <= j

\* RecursiveCharacterTextSplitter._split_text
RECURSIVE split_text(_, _)
RECURSIVE SplitLoop(_, _, _, _)
SplitLoop(splits, new_separators, final_chunks, good_splits) ==
    IF splits = <<>>
    THEN IF good_splits # <<>>
         THEN final_chunks \o merge_splits(good_splits, <<>>)
         ELSE final_chunks
    ELSE LET s == Head(splits)
         IN  IF Len(s) < chunk_size
             THEN SplitLoop(Tail(splits), new_separators, final_chunks,
                            Append(good_splits, s))
             ELSE LET merged == IF good_splits # <<>>
                                THEN final_chunks \o merge_splits(good_splits, <<>>)
                                ELSE final_chunks
                      other  == IF new_separators = <<>> THEN <<s>>
                                ELSE split_text(s, new_separators)
                  IN  SplitLoop(Tail(splits), new_separators, merged \o other, <<>>)

split_text(text, seps) ==
    LET i              == PickSeparator(text, seps)
        separator      == seps[i]
        new_separators == IF separator # <<>> /\ Contains(text, separator)
                          THEN Slice(seps, i + 1, Len(seps)) ELSE <<>>
    IN  SplitLoop(split_text_with_regex(text, separator), new_separators, <<>>, <<>>)

\* TextSplitter.create_documents with add_start_index=True, for one text:
\* each chunk with the offset str.find gives it
RECURSIVE StartIndexLoop(_, _, _, _)
StartIndexLoop(text, chunks, index, previous_chunk_len) ==
    IF chunks = <<>> THEN <<>>
    ELSE LET chunk  == Head(chunks)
             offset == index + previous_chunk_len - chunk_overlap
             found  == Find(text, chunk, IF offset > 0 THEN offset ELSE 0)
         IN  <<[page_content |-> chunk, start_index |-> found]>> \o
             StartIndexLoop(text, Tail(chunks), found, Len(chunk))

create_documents(text) == StartIndexLoop(text, split_text(text, separators), 0, 0)

\* the splitter's output for every text of the input domain, computed once
SplitTable == {<<text, create_documents(text)>> : text \in Texts}

\* self.splitter.split_documents of one Document holding the text
splitter_split_documents(text) == (CHOOSE e \in SplitTable : e[1] = text)[2]

\* ------------------------------------------------------------ identifiers
\* str(UUID): the canonical fixed-width rendering of a UUID
Digits == <<"0", "1">>
str(u) == <<Digits[((u \div 2) % 2) + 1], Digits[(u % 2) + 1]>>

\* uuid5(UUID(int=0x1234...), to_hash): SHA-1 of the namespace and the name,
\* taken as collision-free, so the UUID is determined by the hashed name
uuid5(to_hash) == [uuid5 |-> to_hash]

\* str(uid) of a chunk id
str_id(uid) == [str |-> uid]

\* --------------------------------------------------- ChromaDB backend model
\* where-filters: {"field": value} and {"$and": [...]}
Eq(field, value) == [field |-> field, value |-> value]
And(list) == [and |-> list]
IsAnd(where) == "and" \in DOMAIN where

\* chromadb validate_where: $and needs at least two expressions
ValidWhere(where) == IsAnd(where) => Len(where.and) >= 2

MatchesEq(meta, where) == where.field \in DOMAIN meta /\ meta[where.field] = where.value

\* mutation: one matching expression of a $and is enough
MatchesAny(meta, where) ==
    IF IsAnd(where) THEN \E i \in 1..Len(where.and) : MatchesEq(meta, where.and[i])
    ELSE MatchesEq(meta, where)

Matches(meta, where) ==
    IF IsAnd(where) THEN \A i \in 1..Len(where.and) : MatchesEq(meta, where.and[i])
    ELSE MatchesEq(meta, where)

Range(f) == {f[i] : i \in DOMAIN f}

HasDuplicates(ids) == \E i, j \in 1..Len(ids) : i # j /\ ids[i] = ids[j]

\* mutation: a collection is created anew whether or not the name is taken
create_collection_replacing(cols, name) ==
    [n \in DOMAIN cols \cup {name} |-> IF n = name THEN {} ELSE cols[n]]

\* client.get_or_create_collection(name)
get_or_create_collection(cols, name) ==
    IF name \in DOMAIN cols THEN cols
    ELSE [n \in DOMAIN cols \cup {name} |-> IF n = name THEN {} ELSE cols[n]]

\* client.delete_collection(name)
delete_collection(cols, name) == [n \in DOMAIN cols \ {name} |-> cols[n]]

\* collection.add(ids, metadatas, documents): the request is validated (ids
\* non-empty and without repetition), then every id the collection does not
\* hold yet is inserted; an id it already holds keeps its stored record
AddError(ids) ==
    IF Len(ids) = 0 THEN "ValueError"
    ELSE IF HasDuplicates(ids) THEN "DuplicateIDError"
    ELSE "none"

\* mutation: the collection holds the records of the request and no other
collection_add_only_new(coll, ids, metadatas, documents) ==
    {[id |-> ids[i], document |-> documents[i], metadata |-> metadatas[i]] :
       i \in 1..Len(ids)}

collection_add(coll, ids, metadatas, documents) ==
    coll \cup {[id |-> ids[i], document |-> documents[i], metadata |-> metadatas[i]] :
                 i \in {k \in 1..Len(ids) : \A c \in coll : c.id # ids[k]}}

\* mutation: the filter is ignored, every record is deleted
collection_delete_everything(coll, where) == {}

\* collection.delete(where=...), collection.delete(ids=...)
collection_delete_where(coll, where) == {c \in coll : ~Matches(c.metadata, where)}
collection_delete_ids(coll, ids) == {c \in coll : c.id \notin Range(ids)}

\* collection.get(where=...)
collection_get(coll, where) == {c \in coll : Matches(c.metadata, where)}

\* mutation: every matching record is returned, whatever n_results
collection_query_all_matching(coll, where, n_results) ==
    LET matching == collection_get(coll, where)
        k        == Cardinality(matching)
    IN  {r \in [1..k -> matching] : \A i, j \in 1..k : i # j => r[i] # r[j]}

\* collection.query(query_texts, where, n_results, include=["documents"]):
\* the n_results nearest matching records (all of them when there are fewer),
\* closest first.  Distances come from the embedding of the query text, which
\* is outside the model: every order of every choice is a possible answer.
collection_query(coll, where, n_results) ==
    LET matching == collection_get(coll, where)
        k        == IF Cardinality(matching) < n_results
                    THEN Cardinality(matching) ELSE n_results
    IN  {r \in [1..k -> matching] : \A i, j \in 1..k : i # j => r[i] # r[j]}

Documents(records) == [i \in 1..Len(records) |-> records[i].document]

\* ---------------------------------------------------------------- VectorDB
\* mutation: the two ids are filed under each other's key
ChunkMeta_swapped(project_id, document_id, start_index) ==
    [project_id |-> document_id, document_id |-> project_id,
     start_index |-> start_index]

\* chunk metadata: the Document's metadata plus the splitter's start_index
ChunkMeta(project_id, document_id, start_index) ==
    [project_id |-> project_id, document_id |-> document_id,
     start_index |-> start_index]

\* mutation: the chunk's content is left out of the hashed string
to_hash_without_content(content, meta) == meta.project_id \o meta.document_id

\* VectorDB._split_documents: the id of a part hashes content + project + document
to_hash(content, meta) == content \o meta.project_id \o meta.document_id

\* the loop body of _split_documents: one part with its id
HashedPart(content, meta) ==
    [uid |-> uuid5(to_hash(content, meta)), content |-> content, meta |-> meta]

\* the loop of _split_documents over the splitter's parts
HashedParts(project_id, document_id, parts) ==
    [i \in 1..Len(parts) |->
       HashedPart(parts[i].page_content,
                  ChunkMeta(project_id, document_id, parts[i].start_index))]

split_documents(project_id, document_id, text) ==
    HashedParts(str(project_id), str(document_id), splitter_split_documents(text))

\* the four lists _prepare_document returns
Columns(parts) ==
    [ids      |-> [i \in 1..Len(parts) |-> parts[i].uid],
     str_ids  |-> [i \in 1..Len(parts) |-> str_id(parts[i].uid)],
     contents |-> [i \in 1..Len(parts) |-> parts[i].content],
     metas    |-> [i \in 1..Len(parts) |-> parts[i].meta]]

\* VectorDB._prepare_document
prepare_document(project_id, document_id, text) ==
    Columns(split_documents(project_id, document_id, text))

\* the outcome of one call: the backend afterwards, how the call ended, what
\* it returned and the backend requests it issued
Returned(cols, ret, calls) ==
    [cols |-> cols, outcome |-> "ok", error |-> "none", ret |-> ret, calls |-> calls]
Raised(cols, error, calls) ==
    [cols |-> cols, outcome |-> "raised", error |-> error, ret |-> <<>>, calls |-> calls]

\* VectorDB._try_get_chroma_collection: TRUE when the collection exists
try_get_chroma_collection(cols, user_id) == str(user_id) \in DOMAIN cols

ClientGet == <<"AsyncHttpClient", "get_collection">>
ClientGetOrCreate == <<"AsyncHttpClient", "get_or_create_collection">>

\* VectorDB.delete_embeddings
delete_embeddings(cols, user_id, embedding_ids) ==
    IF ~try_get_chroma_collection(cols, user_id)
    THEN {Returned(cols, FALSE, ClientGet)}
    ELSE LET str_ids == [i \in 1..Len(embedding_ids) |-> str_id(embedding_ids[i])]
         IN  {Returned([cols EXCEPT ![str(user_id)] = collection_delete_ids(@, str_ids)],
                       TRUE, Append(ClientGet, "delete"))}

\* VectorDB.delete_project
delete_project(cols, user_id, project_id) ==
    IF ~try_get_chroma_collection(cols, user_id)
    THEN {Returned(cols, FALSE, ClientGet)}
    ELSE {Returned([cols EXCEPT ![str(user_id)] =
                       collection_delete_where(@, Eq("project_id", str(project_id)))],
                   TRUE, Append(ClientGet, "delete"))}

\* mutation: the document id is matched against the project_id field
invalidate_document_by_project_field(cols, user_id, document_id) ==
    IF ~try_get_chroma_collection(cols, user_id)
    THEN {Returned(cols, FALSE, ClientGet)}
    ELSE {Returned([cols EXCEPT ![str(user_id)] =
                       collection_delete_where(@, Eq("project_id", str(document_id)))],
                   TRUE, Append(ClientGet, "delete"))}

\* VectorDB.invalidate_document
invalidate_document(cols, user_id, document_id) ==
    IF ~try_get_chroma_collection(cols, user_id)
    THEN {Returned(cols, FALSE, ClientGet)}
    ELSE {Returned([cols EXCEPT ![str(user_id)] =
                       collection_delete_where(@, Eq("document_id", str(document_id)))],
                   TRUE, Append(ClientGet, "delete"))}

\* mutation: the collection is emptied instead of removed
delete_user_keeping_collection(cols, user_id) ==
    IF str(user_id) \notin DOMAIN cols
    THEN {Returned(cols, FALSE, ClientGet)}
    ELSE {Returned([cols EXCEPT ![str(user_id)] = {}], TRUE,
                   Append(ClientGet, "delete"))}

\* VectorDB.delete_user
delete_user(cols, user_id) ==
    IF str(user_id) \notin DOMAIN cols
    THEN {Returned(cols, FALSE, ClientGet)}
    ELSE {Returned(delete_collection(cols, str(user_id)), TRUE,
                   Append(ClientGet, "delete_collection"))}

\* the where_meta list VectorDB.retrieve builds (None is no filter)
where_meta(project_id, document_id) ==
    (IF project_id # None THEN <<Eq("project_id", str(project_id))>> ELSE <<>>) \o
    (IF document_id # None THEN <<Eq("document_id", str(document_id))>> ELSE <<>>)

\* mutation: no scope check, an unscoped call searches the whole collection
retrieve_without_scope_check(cols, user_id, project_id, document_id, n_results) ==
    IF ~try_get_chroma_collection(cols, user_id)
    THEN {Returned(cols, <<>>, ClientGet)}
    ELSE LET filters == where_meta(project_id, document_id)
             coll    == cols[str(user_id)]
             calls   == Append(ClientGet, "query")
             k       == IF Cardinality(coll) < n_results
                        THEN Cardinality(coll) ELSE n_results
         IN  IF filters = <<>>
             THEN {Returned(cols, Documents(r), calls) :
                     r \in {x \in [1..k -> coll] : \A i, j \in 1..k : i # j => x[i] # x[j]}}
             ELSE IF ~ValidWhere(And(filters))
             THEN {Raised(cols, "ValueError", calls)}
             ELSE {Returned(cols, Documents(r), calls) :
                     r \in collection_query(coll, And(filters), n_results)}

\* VectorDB.retrieve
retrieve(cols, user_id, project_id, document_id, n_results) ==
    IF project_id = None /\ document_id = None
    THEN {Returned(cols, <<>>, <<>>)}
    ELSE IF ~try_get_chroma_collection(cols, user_id)
    THEN {Returned(cols, <<>>, ClientGet)}
    ELSE LET where == And(where_meta(project_id, document_id))
             calls == Append(ClientGet, "query")
         IN  IF ~ValidWhere(where)
             THEN {Raised(cols, "ValueError", calls)}
             ELSE {Returned(cols, Documents(r), calls) :
                     r \in collection_query(cols[str(user_id)], where, n_results)}

\* mutation: only the ids of the records this call inserted are returned
add_prepared_returning_created(created, name, doc) ==
    IF AddError(doc.str_ids) # "none"
    THEN {Raised(created, AddError(doc.str_ids), Append(ClientGetOrCreate, "add"))}
    ELSE {Returned([created EXCEPT ![name] =
                       collection_add(@, doc.str_ids, doc.metas, doc.contents)],
                   SelectSeq(doc.ids, LAMBDA uid : \A c \in created[name] : c.id # str_id(uid)),
                   Append(ClientGetOrCreate, "add"))}

\* add_document_to_project after its two preparatory calls: collection.add of
\* the prepared lists into the collection of that name, the UUIDs returned
add_prepared(created, name, doc) ==
    IF AddError(doc.str_ids) # "none"
    THEN {Raised(created, AddError(doc.str_ids), Append(ClientGetOrCreate, "add"))}
    ELSE {Returned([created EXCEPT ![name] =
                       collection_add(@, doc.str_ids, doc.metas, doc.contents)],
                   doc.ids, Append(ClientGetOrCreate, "add"))}

\* VectorDB.add_document_to_project
add_document_to_project(cols, user_id, project_id, document_id, text) ==
    add_prepared(get_or_create_collection(cols, str(user_id)), str(user_id),
                 prepare_document(project_id, document_id, text))

\* add_document_and_query's collection.query over what the add left
query_added(added, name, where, n_results) ==
    {Returned(added, Documents(r), ClientGetOrCreate \o <<"add", "query">>) :
       r \in collection_query(added[name], where, n_results)}

\* add_document_and_query after its two preparatory calls
add_prepared_and_query(created, name, doc, where, n_results) ==
    IF AddError(doc.str_ids) # "none"
    THEN {Raised(created, AddError(doc.str_ids), Append(ClientGetOrCreate, "add"))}
    ELSE query_added([created EXCEPT ![name] =
                         collection_add(@, doc.str_ids, doc.metas, doc.contents)],
                     name, where, n_results)

\* VectorDB.add_document_and_query
add_document_and_query(cols, user_id, project_id, document_id, text, n_results) ==
    add_prepared_and_query(get_or_create_collection(cols, str(user_id)), str(user_id),
                           prepare_document(project_id, document_id, text),
                           Eq("document_id", str(document_id)), n_results)

\* mutation: the query runs over the records of every collection
store_and_retrieve_across_tenants(cols, user_id, project_id, document_id, content, n_results) ==
    LET stripped == Strip(content)
        where    == Eq("document_id", str(document_id))
        exists   == try_get_chroma_collection(cols, user_id)
        known    == exists /\ collection_get(cols[str(user_id)], where) # {}
        looked   == IF exists THEN Append(ClientGet, "get") ELSE ClientGet
    IN  IF known
        THEN {Returned(cols, Documents(r), Append(looked, "query")) :
                r \in collection_query(UNION {cols[n] : n \in DOMAIN cols}, where, n_results)}
        ELSE {[r EXCEPT !.calls = looked \o @] :
                r \in add_document_and_query(cols, user_id, project_id, document_id,
                                             stripped, n_results)}

\* VectorDB.store_and_retrieve
store_and_retrieve(cols, user_id, project_id, document_id, content, n_results) ==
    LET stripped == Strip(content)
        where    == Eq("document_id", str(document_id))
        exists   == try_get_chroma_collection(cols, user_id)
        known    == exists /\ collection_get(cols[str(user_id)], where) # {}
        looked   == IF exists THEN Append(ClientGet, "get") ELSE ClientGet
    IN  IF known
        THEN {Returned(cols, Documents(r), Append(looked, "query")) :
                r \in collection_query(cols[str(user_id)], where, n_results)}
        ELSE {[r EXCEPT !.calls = looked \o @] :
                r \in add_document_and_query(cols, user_id, project_id, document_id,
                                             stripped, n_results)}

\* ------------------------------------------------------------------- state
VARIABLES
    collections,   \* the backend: collection name |-> set of stored records
    last,          \* the call that has just returned, with its outcome
    hashseed,      \* the seed of the interpreter's str hash (fixed per process)
    tasks          \* the coroutines in flight when calls run concurrently

vars == <<collections, last, hashseed, tasks>>

NoCall ==
    [op |-> "none", user_id |-> None, project_id |-> None, document_id |-> None,
     text |-> <<>>, n_results |-> 0, embedding_ids |-> <<>>,
     outcome |-> "ok", error |-> "none", ret |-> <<>>, calls |-> <<>>]

CallRecord(op, user_id, project_id, document_id, text, n_results, embedding_ids, r) ==
    [op |-> op, user_id |-> user_id, project_id |-> project_id,
     document_id |-> document_id, text |-> text, n_results |-> n_results,
     embedding_ids |-> embedding_ids,
     outcome |-> r.outcome, error |-> r.error, ret |-> r.ret, calls |-> r.calls]

RECURSIVE TotalChunks(_, _)
TotalChunks(cols, names) ==
    IF names = {} THEN 0
    ELSE LET n == CHOOSE x \in names : TRUE
         IN  Cardinality(cols[n]) + TotalChunks(cols, names \ {n})

\* the backend holds at most MaxChunks records
Fits(cols) == TotalChunks(cols, DOMAIN cols) <= MaxChunks

\* id lists a caller passes to delete_embeddings: the ids an upsert returned
EmbeddingIdLists ==
    {ids \in {prepare_document(p, d, t).ids : p \in UUIDs, d \in UUIDs, t \in DocTexts} :
       ids # <<>> /\ ~HasDuplicates(ids)}

Idle == last.op = "none"

Init ==
    /\ collections = <<>>
    /\ last = NoCall
    /\ hashseed = 0
    /\ tasks = <<>>

Finish(r, call) ==
    /\ Fits(r.cols)
    /\ collections' = r.cols
    /\ last' = call
    /\ UNCHANGED <<hashseed, tasks>>

DeleteEmbeddings ==
    /\ Idle
    /\ \E u \in UUIDs, ids \in EmbeddingIdLists :
         \E r \in delete_embeddings(collections, u, ids) :
            Finish(r, CallRecord("delete_embeddings", u, None, None, <<>>, 0, ids, r))

DeleteProject ==
    /\ Idle
    /\ \E u \in UUIDs, p \in UUIDs :
         \E r \in delete_project(collections, u, p) :
            Finish(r, CallRecord("delete_project", u, p, None, <<>>, 0, <<>>, r))

InvalidateDocument ==
    /\ Idle
    /\ \E u \in UUIDs, d \in UUIDs :
         \E r \in invalidate_document(collections, u, d) :
            Finish(r, CallRecord("invalidate_document", u, None, d, <<>>, 0, <<>>, r))

DeleteUser ==
    /\ Idle
    /\ \E u \in UUIDs :
         \E r \in delete_user(collections, u) :
            Finish(r, CallRecord("delete_user", u, None, None, <<>>, 0, <<>>, r))

Retrieve ==
    /\ Idle
    /\ \E u \in UUIDs, p \in UUIDs \cup {None}, d \in UUIDs \cup {None},
          n \in 1..MaxResults :
         \E r \in retrieve(collections, u, p, d, n) :
            Finish(r, CallRecord("retrieve", u, p, d, <<>>, n, <<>>, r))

AddDocumentToProject ==
    /\ Idle
    /\ \E u \in UUIDs, p \in UUIDs, d \in UUIDs, t \in DocTexts :
         \E r \in add_document_to_project(collections, u, p, d, t) :
            Finish(r, CallRecord("add_document_to_project", u, p, d, t, 0, <<>>, r))

AddDocumentAndQuery ==
    /\ Idle
    /\ \E u \in UUIDs, p \in UUIDs, d \in UUIDs, t \in DocTexts, n \in 1..MaxResults :
         \E r \in add_document_and_query(collections, u, p, d, t, n) :
            Finish(r, CallRecord("add_document_and_query", u, p, d, t, n, <<>>, r))

StoreAndRetrieve ==
    /\ Idle
    /\ \E u \in UUIDs, p \in UUIDs, d \in UUIDs, t \in DocTexts, n \in 1..MaxResults :
         \E r \in store_and_retrieve(collections, u, p, d, t, n) :
            Finish(r, CallRecord("store_and_retrieve", u, p, d, t, n, <<>>, r))

\* the caller takes the result; the next call can be issued
Return ==
    /\ ~Idle
    /\ last' = NoCall
    /\ UNCHANGED <<collections, hashseed, tasks>>

Next ==
    \/ DeleteEmbeddings
    \/ DeleteProject
    \/ InvalidateDocument
    \/ DeleteUser
    \/ Retrieve
    \/ AddDocumentToProject
    \/ AddDocumentAndQuery
    \/ StoreAndRetrieve
    \/ Return

Spec == Init /\ [][Next]_vars

\* --------------------------------------------- RAG (src/cobwebai_lib/rag.py)
\* RAG takes user and project ids as strings
Names == {str(u) : u \in UUIDs}
HashSeeds == {0, 1}

\* hash(str): deterministic within one process, seeded per process
py_hash(seed, content) == [hash |-> content, seed |-> seed]

\* the three lists RAG.split_documents builds from the splitter's parts
RAG_columns(seed, user_id, project_id, parts) ==
    [ids       |-> [i \in 1..Len(parts) |-> str_id(py_hash(seed, parts[i].page_content))],
     parts     |-> [i \in 1..Len(parts) |-> parts[i].page_content],
     metadatas |-> [i \in 1..Len(parts) |->
                      [user_id |-> user_id, project_id |-> project_id,
                       start_index |-> parts[i].start_index]]]

\* RAG.split_documents
RAG_split_documents(seed, user_id, project_id, note) ==
    RAG_columns(seed, user_id, project_id, splitter_split_documents(note))

\* RAG.clear_project
RAG_clear_project(cols, user_id, project_id) ==
    LET created == get_or_create_collection(cols, user_id)
    IN  {Returned([created EXCEPT ![user_id] =
                      collection_delete_where(@, Eq("project_id", project_id))],
                  None, <<"get_or_create_collection", "delete">>)}

\* RAG.add_note_to_project after its two preparatory calls: collection.add
RAG_add_parts(created, user_id, doc) ==
    IF AddError(doc.ids) # "none"
    THEN {Raised(created, AddError(doc.ids), <<"get_or_create_collection", "add">>)}
    ELSE {Returned([created EXCEPT ![user_id] =
                       collection_add(@, doc.ids, doc.metadatas, doc.parts)],
                   None, <<"get_or_create_collection", "add">>)}

\* RAG.add_note_to_project
RAG_add_note_to_project(cols, seed, user_id, project_id, note) ==
    RAG_add_parts(get_or_create_collection(cols, user_id), user_id,
                  RAG_split_documents(seed, user_id, project_id, note))

\* RAG.retrieve: returns the backend's whole query result
RAG_retrieve(cols, user_id, project_id) ==
    LET created == get_or_create_collection(cols, user_id)
    IN  {Returned(created,
                  [ids |-> [i \in 1..Len(r) |-> r[i].id], documents |-> Documents(r)],
                  <<"get_or_create_collection", "query">>) :
           r \in collection_query(created[user_id], Eq("project_id", project_id), 2)}

InitRAG ==
    /\ collections = <<>>
    /\ last = NoCall
    /\ hashseed \in HashSeeds
    /\ tasks = <<>>

RAGClearProject ==
    /\ Idle
    /\ \E u \in Names, p \in Names :
         \E r \in RAG_clear_project(collections, u, p) :
            Finish(r, CallRecord("RAG.clear_project", u, p, None, <<>>, 0, <<>>, r))

RAGAddNoteToProject ==
    /\ Idle
    /\ \E u \in Names, p \in Names, t \in DocTexts :
         \E r \in RAG_add_note_to_project(collections, hashseed, u, p, t) :
            Finish(r, CallRecord("RAG.add_note_to_project", u, p, None, t, 0, <<>>, r))

RAGRetrieve ==
    /\ Idle
    /\ \E u \in Names, p \in Names :
         \E r \in RAG_retrieve(collections, u, p) :
            Finish(r, CallRecord("RAG.retrieve", u, p, None, <<>>, 2, <<>>, r))

NextRAG ==
    \/ RAGClearProject
    \/ RAGAddNoteToProject
    \/ RAGRetrieve
    \/ Return

SpecRAG == InitRAG /\ [][NextRAG]_vars

\* ------------------------------- LLMTools._process_attachments (llm.py:53-90)
\* the inline thresholds, scaled like the splitter's sizes (4096 -> 3,
\* 8192 -> 4): both stay at or above chunk_size and keep their order
ATTACHMENT_RAG_CUTOFF_LEN == 3
FORCED_ATTACHMENT_MAX_LEN == 4

\* n_results of store_and_retrieve when the caller passes none
DEFAULT_N_RESULTS == 2

\* ChatAttachment
Attachment(id, content) == [id |-> id, content |-> content]

\* attachment contents: inline everywhere, at the boundary of the smaller
\* threshold, at the boundary of the larger one (two chunks), above both
\* (the same two chunks; a repeated window)
AttachmentTexts ==
    { <<"a">>, <<"a", "a", "a">>, <<"a", "a", " ", "a">>,
      <<"a", "a", " ", " ", "a">>, <<"a", "a", "a", "a", "a">> }

Attachments == {Attachment(id, content) : id \in UUIDs, content \in AttachmentTexts}

\* user_prompt; <<>> stands for both None and "", which the router treats alike
Prompts == { <<>>, <<" ">>, <<"q">> }

\* user_id of the router's calls: one tenant, several projects (what a call
\* for one tenant does to another is the subject of C6)
RouterUsers == {1}

\* the nested retriever (llm.py:66-76)
retriever(cols, user_id, project_id, att, user_prompt) ==
    IF user_prompt = <<>>
    THEN {Returned(cols, <<>>, <<>>)}
    ELSE store_and_retrieve(cols, user_id, project_id, att.id, att.content,
                            DEFAULT_N_RESULTS)

\* mutation: the boundary is exclusive, a content of exactly the threshold
\* length goes through retrieval
contribution_below_threshold(cols, user_id, project_id, att, threshold, user_prompt) ==
    IF Len(att.content) < threshold
    THEN {Returned(cols, <<att.content>>, <<>>)}
    ELSE retriever(cols, user_id, project_id, att, user_prompt)

\* one round of either loop (llm.py:78-88): what the attachment adds to short_atts
contribution(cols, user_id, project_id, att, threshold, user_prompt) ==
    IF Len(att.content) <= threshold
    THEN {Returned(cols, <<att.content>>, <<>>)}
    ELSE retriever(cols, user_id, project_id, att, user_prompt)

\* the rounds after one that returned r: an exception ends the call
RECURSIVE rounds(_, _, _, _, _)
after_round(r, user_id, project_id, items, user_prompt) ==
    IF r.outcome # "ok"
    THEN {[cols |-> r.cols, outcome |-> r.outcome, error |-> r.error,
           pieces |-> <<>>, calls |-> r.calls]}
    ELSE {[rest EXCEPT !.pieces = <<r.ret>> \o @, !.calls = r.calls \o @] :
            rest \in rounds(r.cols, user_id, project_id, Tail(items), user_prompt)}

\* the two loops over the attachments, each with the threshold of its list;
\* pieces holds, per attachment, what it added to short_atts
rounds(cols, user_id, project_id, items, user_prompt) ==
    IF items = <<>>
    THEN {[cols |-> cols, outcome |-> "ok", error |-> "none", pieces |-> <<>>,
           calls |-> <<>>]}
    ELSE UNION {after_round(r, user_id, project_id, items, user_prompt) :
                  r \in contribution(cols, user_id, project_id, Head(items).att,
                                     Head(items).threshold, user_prompt)}

WithThreshold(atts, threshold) ==
    [i \in 1..Len(atts) |-> [att |-> atts[i], threshold |-> threshold]]

\* short_atts: the pieces of all attachments, flattened in order
RECURSIVE Flatten(_)
Flatten(lists) == IF lists = <<>> THEN <<>> ELSE Head(lists) \o Flatten(Tail(lists))

\* mutation: the pieces are joined by three line breaks
context_wide_separator(short_atts) ==
    IF short_atts = <<>> THEN <<>> ELSE <<Join(short_atts, <<"\n", "\n", "\n">>)>>

\* "\n\n".join(short_atts) if short_atts else None; the result is <<>> for
\* None and a one-element sequence holding the string otherwise
context(short_atts) ==
    IF short_atts = <<>> THEN <<>> ELSE <<Join(short_atts, <<"\n", "\n">>)>>

\* mutation: the rag_attachments are processed before the attachments
process_attachments_rag_first(cols, user_id, project_id, attachments, rag_attachments, user_prompt) ==
    {[cols |-> r.cols, outcome |-> r.outcome, error |-> r.error, calls |-> r.calls,
      pieces |-> r.pieces,
      ret |-> IF r.outcome = "ok" THEN context(Flatten(r.pieces)) ELSE <<>>] :
       r \in rounds(cols, user_id, project_id,
                    WithThreshold(rag_attachments, ATTACHMENT_RAG_CUTOFF_LEN) \o
                    WithThreshold(attachments, FORCED_ATTACHMENT_MAX_LEN),
                    Strip(user_prompt))}

\* LLMTools._process_attachments
process_attachments(cols, user_id, project_id, attachments, rag_attachments, user_prompt) ==
    {[cols |-> r.cols, outcome |-> r.outcome, error |-> r.error, calls |-> r.calls,
      pieces |-> r.pieces,
      ret |-> IF r.outcome = "ok" THEN context(Flatten(r.pieces)) ELSE <<>>] :
       r \in rounds(cols, user_id, project_id,
                    WithThreshold(attachments, FORCED_ATTACHMENT_MAX_LEN) \o
                    WithThreshold(rag_attachments, ATTACHMENT_RAG_CUTOFF_LEN),
                    Strip(user_prompt))}

\* lists of attachments, at most MaxAttachments in the two lists together
AttachmentLists == UNION {[1..n -> Attachments] : n \in 0..MaxAttachments}

RouterCall(user_id, project_id, attachments, rag_attachments, user_prompt, r) ==
    [op |-> "process_attachments", user_id |-> user_id, project_id |-> project_id,
     document_id |-> None, text |-> user_prompt, n_results |-> DEFAULT_N_RESULTS,
     embedding_ids |-> <<>>, attachments |-> attachments,
     rag_attachments |-> rag_attachments, pieces |-> r.pieces,
     outcome |-> r.outcome, error |-> r.error, ret |-> r.ret, calls |-> r.calls]

ProcessAttachments ==
    /\ Idle
    /\ \E u \in RouterUsers, p \in UUIDs, atts \in AttachmentLists,
          ratts \in AttachmentLists, q \in Prompts :
          /\ Len(atts) + Len(ratts) <= MaxAttachments
          /\ \E r \in process_attachments(collections, u, p, atts, ratts, q) :
                Finish(r, RouterCall(u, p, atts, ratts, q, r))

NextRouter ==
    \/ ProcessAttachments
    \/ Return

SpecRouter == Init /\ [][NextRouter]_vars

\* ------------------------------------------- concurrent upserts (vdb.py:222-239)
\* add_document_to_project is a coroutine: it awaits the backend twice, for
\* get_or_create_collection and for collection.add, and other coroutines run
\* between the two.  A task is one such call with its position.
NewTask(user_id, project_id, document_id, text) ==
    [pc |-> "get_or_create", user_id |-> user_id, project_id |-> project_id,
     document_id |-> document_id, text |-> text, outcome |-> "running", ret |-> <<>>]

\* the texts of concurrent upserts: empty, one chunk, another single chunk,
\* and two chunks with the contents of the single ones
TaskTexts == { <<>>, <<"a">>, <<"a", "a">>, <<"a", " ", "a", "a">> }

\* a caller starts one more upsert
StartUpsert ==
    /\ Len(tasks) < MaxTasks
    /\ \E u \in UUIDs, p \in UUIDs, d \in UUIDs, t \in TaskTexts :
          tasks' = Append(tasks, NewTask(u, p, d, t))
    /\ UNCHANGED <<collections, last, hashseed>>

\* first await: _get_or_create_chroma_collection (vdb.py:231)
UpsertGetOrCreate ==
    \E i \in DOMAIN tasks :
        /\ tasks[i].pc = "get_or_create"
        /\ collections' = get_or_create_collection(collections, str(tasks[i].user_id))
        /\ tasks' = [tasks EXCEPT ![i].pc = "add"]
        /\ UNCHANGED <<last, hashseed>>

\* second await: collection.add on the collection obtained, then the return
UpsertAdd ==
    \E i \in DOMAIN tasks :
        /\ tasks[i].pc = "add"
        /\ \E r \in add_prepared(collections, str(tasks[i].user_id),
                                 prepare_document(tasks[i].project_id,
                                                  tasks[i].document_id, tasks[i].text)) :
              /\ Fits(r.cols)
              /\ collections' = r.cols
              /\ tasks' = [tasks EXCEPT ![i].pc = "done", ![i].outcome = r.outcome,
                                        ![i].ret = r.ret]
        /\ UNCHANGED <<last, hashseed>>

NextConcurrent ==
    \/ StartUpsert
    \/ UpsertGetOrCreate
    \/ UpsertAdd

SpecConcurrent == Init /\ [][NextConcurrent]_vars

\* ================================================================== claims
IsUpsert == last.op = "add_document_to_project"

\* the same upsert issued once more in the current state
UpsertAgain ==
    add_document_to_project(collections, last.user_id, last.project_id,
                            last.document_id, last.text)

\* the upsert of another text for the same tenant, project and document
UpsertOther(text) ==
    add_document_to_project(collections, last.user_id, last.project_id,
                            last.document_id, text)

\* C1: an upsert repeated with the same tenant, project, document and text
\* ends the same way and returns the same list of chunk ids as the first
\* call, and leaves the stored records exactly as the first call left them.
C1_UpsertIdempotent ==
    IsUpsert =>
        \A r \in UpsertAgain :
            /\ r.outcome = last.outcome
            /\ r.ret = last.ret
            /\ r.cols = collections

\* an upsert of a two-chunk text has returned its two ids and stored them
C1_Witness ==
    /\ IsUpsert
    /\ last.outcome = "ok"
    /\ Len(last.ret) = 2
    /\ \A i \in 1..2 : \E c \in collections[str(last.user_id)] : c.id = str_id(last.ret[i])

\* C2 as claimed: upserts of two different texts for the same tenant,
\* project and document return id lists with no id in common.
C2_DisjointIdsForDifferentTexts ==
    (IsUpsert /\ last.outcome = "ok") =>
        \A text \in Texts \ {last.text} :
            \A r \in UpsertOther(text) :
                r.outcome = "ok" => Range(r.ret) \cap Range(last.ret) = {}

\* C2 as amended: the id lists of two different texts for the same tenant,
\* project and document share an id exactly where both texts produce a chunk
\* of the same content; texts without a common chunk content get disjoint
\* id lists.
C2_CommonIdsAreCommonContents ==
    (IsUpsert /\ last.outcome = "ok") =>
        \A text \in Texts \ {last.text} :
            \A r \in UpsertOther(text) :
                r.outcome = "ok" =>
                    LET mine   == prepare_document(last.project_id, last.document_id,
                                                   last.text).contents
                        theirs == prepare_document(last.project_id, last.document_id,
                                                   text).contents
                    IN  \A i \in 1..Len(last.ret), j \in 1..Len(r.ret) :
                            (last.ret[i] = r.ret[j]) <=> (mine[i] = theirs[j])

\* an upsert has returned; one other text shares an id with it and another
\* other text shares none
C2_Witness ==
    /\ IsUpsert
    /\ last.outcome = "ok"
    /\ \E text \in Texts \ {last.text} :
          \E r \in UpsertOther(text) :
              r.outcome = "ok" /\ Range(r.ret) \cap Range(last.ret) # {}
    /\ \E text \in Texts \ {last.text} :
          \E r \in UpsertOther(text) :
              r.outcome = "ok" /\ Range(r.ret) \cap Range(last.ret) = {}

IsUnscopedRetrieve ==
    last.op = "retrieve" /\ last.project_id = None /\ last.document_id = None

C4_EmptyTextRejectedBeforeBackend ==
    [][(/\ last'.op \in {"add_document_to_project", "add_document_and_query"}
        /\ last'.text = <<>>)
       => (/\ last'.outcome = "raised"
           /\ last'.calls = <<>>
           /\ collections' = collections)]_vars

\* number of positions of seq that hold x
Count(seq, x) == Cardinality({i \in 1..Len(seq) : seq[i] = x})

\* the record satisfies every filter the call supplied, by equality
InScope(c, project_id, document_id) ==
    /\ project_id # None => c.metadata.project_id = str(project_id)
    /\ document_id # None => c.metadata.document_id = str(document_id)

\* every returned text can be matched, one to one, with a record of the set
DrawnFrom(texts, records) ==
    \A x \in Range(texts) : Count(texts, x) <= Cardinality({c \in records : c.document = x})

\* C5: the texts a retrieve returns are the contents of stored chunks of the
\* tenant that satisfy every supplied filter by equality (project_id when a
\* project is supplied and document_id when a document is supplied), each
\* such chunk answering for at most one returned text.
C5_RetrieveScoped ==
    (last.op = "retrieve" /\ last.outcome = "ok" /\ last.ret # <<>>) =>
        DrawnFrom(last.ret,
                  {c \in collections[str(last.user_id)] :
                     InScope(c, last.project_id, last.document_id)})

\* a retrieve with both filters has returned a text while the tenant also
\* holds a chunk of another project and a chunk of another document
C5_Witness ==
    /\ last.op = "retrieve"
    /\ last.outcome = "ok"
    /\ last.ret # <<>>
    /\ last.project_id # None
    /\ last.document_id # None
    /\ \E c \in collections[str(last.user_id)] :
          c.metadata.project_id # str(last.project_id)
    /\ \E c \in collections[str(last.user_id)] :
          c.metadata.document_id # str(last.document_id)

QueryOps == {"retrieve", "add_document_and_query", "store_and_retrieve"}

\* a call for one tenant leaves every other tenant's collection as it was
OtherTenantsUntouched ==
    last'.op # "none" =>
        \A n \in (DOMAIN collections \cup DOMAIN collections') \ {str(last'.user_id)} :
            /\ n \in DOMAIN collections
            /\ n \in DOMAIN collections'
            /\ collections'[n] = collections[n]

\* the texts a query returned are contents of chunks of the caller's collection
AnsweredFromOwnCollection ==
    (last.op \in QueryOps /\ last.outcome = "ok" /\ last.ret # <<>>) =>
        /\ str(last.user_id) \in DOMAIN collections
        /\ DrawnFrom(last.ret, collections[str(last.user_id)])

\* C6: tenants are isolated: distinct tenants have distinct collections, a
\* call for one tenant never writes another tenant's collection, and every
\* text returned by retrieve, add_document_and_query or store_and_retrieve
\* is the content of a chunk in the caller's own collection.
C6_TenantIsolation ==
    /\ [](\A u1, u2 \in UUIDs : u1 # u2 => str(u1) # str(u2))
    /\ [][OtherTenantsUntouched]_vars
    /\ []AnsweredFromOwnCollection

\* a query has answered for one tenant while another tenant holds, under the
\* same project id and document id, a chunk whose content was not returned
C6_Witness ==
    /\ last.op \in QueryOps
    /\ last.outcome = "ok"
    /\ last.ret # <<>>
    /\ \E n \in DOMAIN collections \ {str(last.user_id)} :
          \E c \in collections[n] :
              /\ c.metadata.document_id = str(last.document_id)
              /\ last.project_id # None => c.metadata.project_id = str(last.project_id)
              /\ c.document \notin Range(last.ret)

DeletedProject == last.op = "delete_project" /\ last.ret = TRUE

\* after the deletion the tenant holds no chunk of the project
C7_NoChunkOfProject ==
    DeletedProject =>
        \A c \in collections[str(last.user_id)] :
            c.metadata.project_id # str(last.project_id)

\* after the deletion every query scoped to the project returns the empty list
C7_ScopedQueryEmpty ==
    DeletedProject =>
        \A d \in UUIDs \cup {None}, n \in 1..MaxResults :
            \A r \in retrieve(collections, last.user_id, last.project_id, d, n) :
                r.outcome = "ok" /\ r.ret = <<>>

\* the deletion changes nothing but the chunks of the project
C7_OthersUnchanged ==
    (last'.op = "delete_project" /\ last'.ret = TRUE) =>
        /\ DOMAIN collections' = DOMAIN collections
        /\ \A n \in DOMAIN collections :
              collections'[n] =
                  IF n = str(last'.user_id)
                  THEN {c \in collections[n] :
                          c.metadata.project_id # str(last'.project_id)}
                  ELSE collections[n]

\* C7 as claimed: after delete_project(t, P) on an existing tenant no chunk
\* of P remains in t's index, a query scoped to P returns the empty list, and
\* the chunks of t's other projects and of every other tenant are unchanged.
C7_ProjectDeleted ==
    /\ []C7_NoChunkOfProject
    /\ []C7_ScopedQueryEmpty
    /\ [][C7_OthersUnchanged]_vars

\* C8: invalidate_document(t, D) on an existing tenant removes from t's
\* index exactly the chunks whose document_id is D: none of them remains,
\* every other chunk of t (also of the same project) and every other
\* tenant's collection is unchanged, and no collection appears or goes.
C8_DocumentInvalidated ==
    [][(last'.op = "invalidate_document" /\ last'.ret = TRUE) =>
        /\ DOMAIN collections' = DOMAIN collections
        /\ \A n \in DOMAIN collections :
              collections'[n] =
                  IF n = str(last'.user_id)
                  THEN {c \in collections[n] :
                          c.metadata.document_id # str(last'.document_id)}
                  ELSE collections[n]]_vars

\* an invalidation has returned True and the tenant still holds a chunk of
\* another document
C8_Witness ==
    /\ last.op = "invalidate_document"
    /\ last.ret = TRUE
    /\ \E c \in collections[str(last.user_id)] :
          c.metadata.document_id # str(last.document_id)

\* delete_user returns whether the collection existed and removes it only
C9_ReturnsWhetherExisted ==
    last'.op = "delete_user" =>
        /\ last'.outcome = "ok"
        /\ last'.ret = (str(last'.user_id) \in DOMAIN collections)
        /\ DOMAIN collections' = DOMAIN collections \ {str(last'.user_id)}
        /\ \A n \in DOMAIN collections' : collections'[n] = collections[n]

\* after a deletion that returned True: no index, retrieve returns the empty
\* list, a second delete_user returns False, and an upsert creates the
\* index again and stores the chunks of its text
C9_AfterDeletion ==
    (last.op = "delete_user" /\ last.ret = TRUE) =>
        /\ str(last.user_id) \notin DOMAIN collections
        /\ \A p \in UUIDs \cup {None}, d \in UUIDs \cup {None}, n \in 1..MaxResults :
              \A r \in retrieve(collections, last.user_id, p, d, n) :
                  r.outcome = "ok" /\ r.ret = <<>>
        /\ \A r \in delete_user(collections, last.user_id) :
              r.outcome = "ok" /\ r.ret = FALSE
        /\ \A p \in UUIDs, d \in UUIDs, t \in DocTexts :
              \A r \in add_document_to_project(collections, last.user_id, p, d, t) :
                  LET doc == prepare_document(p, d, t)
                  IN  /\ str(last.user_id) \in DOMAIN r.cols
                      /\ (doc.ids # <<>> /\ ~HasDuplicates(doc.ids)) =>
                            /\ r.outcome = "ok"
                            /\ r.ret = doc.ids
                            /\ {c.id : c \in r.cols[str(last.user_id)]} = Range(doc.str_ids)

\* C9: delete_user(t) returns True exactly when a collection for t existed;
\* after it returned True the tenant has no index and no chunk, retrieve
\* returns the empty list, another delete_user returns False, and an upsert
\* for t creates the index again and succeeds.
C9_TenantDeleted ==
    /\ [][C9_ReturnsWhetherExisted]_vars
    /\ []C9_AfterDeletion

\* a delete_user has returned True while another tenant keeps its chunks
C9_Witness ==
    /\ last.op = "delete_user"
    /\ last.ret = TRUE
    /\ \E n \in DOMAIN collections : collections[n] # {}

ReadDeleteOps ==
    {"retrieve", "delete_project", "invalidate_document", "delete_embeddings",
     "delete_user", "RAG.clear_project", "RAG.retrieve"}

\* the collection name a call addresses
TenantName(call) ==
    IF call.op \in {"RAG.clear_project", "RAG.add_note_to_project", "RAG.retrieve"}
    THEN call.user_id
    ELSE str(call.user_id)

\* C10 as claimed: for a tenant that has no collection a read or delete
\* operation does not raise, does not create a collection, and returns the
\* empty list (a retrieve) or False (a deletion).
C10_ReadsAndDeletesCreateNothing ==
    [][(/\ last'.op \in ReadDeleteOps
        /\ TenantName(last') \notin DOMAIN collections)
       => (/\ last'.outcome = "ok"
           /\ TenantName(last') \notin DOMAIN collections'
           /\ last'.op = "retrieve" => last'.ret = <<>>
           /\ last'.op = "RAG.retrieve" => last'.ret.documents = <<>>
           /\ last'.op \in {"delete_project", "invalidate_document",
                            "delete_embeddings", "delete_user"} => last'.ret = FALSE)]_vars

\* the tasks that have obtained their collection
Holding == {i \in DOMAIN tasks : tasks[i].pc # "get_or_create"}

\* the tasks that have returned their ids
Stored == {i \in DOMAIN tasks : tasks[i].pc = "done" /\ tasks[i].outcome = "ok"}

\* C11: whatever the interleaving of concurrent upserts, there is one
\* collection per tenant that an upsert has reached and no other, and every
\* chunk an upsert has returned the id of is stored, with its content, in the
\* collection of its tenant.
C11_OneCollectionHoldsAll ==
    /\ DOMAIN collections = {str(tasks[i].user_id) : i \in Holding}
    /\ \A i \in Stored :
          LET doc == prepare_document(tasks[i].project_id, tasks[i].document_id,
                                      tasks[i].text)
          IN  /\ tasks[i].ret = doc.ids
              /\ \A k \in 1..Len(doc.ids) :
                    \E c \in collections[str(tasks[i].user_id)] :
                        c.id = doc.str_ids[k] /\ c.document = doc.contents[k]

\* two upserts of different documents for one tenant have both returned
C11_Witness ==
    /\ Len(tasks) = 2
    /\ Stored = {1, 2}
    /\ tasks[1].user_id = tasks[2].user_id
    /\ tasks[1].document_id # tasks[2].document_id
    /\ Cardinality(collections[str(tasks[1].user_id)]) = 2

IsRouted == last.op = "process_attachments"

\* the attachments of the call in processing order, each with its threshold
RoutedItems ==
    WithThreshold(last.attachments, FORCED_ATTACHMENT_MAX_LEN) \o
    WithThreshold(last.rag_attachments, ATTACHMENT_RAG_CUTOFF_LEN)

\* the positions of the attachments that went through retrieval
OverThreshold ==
    {i \in 1..Len(RoutedItems) : Len(RoutedItems[i].att.content) > RoutedItems[i].threshold}

\* C12: in a call that returned, an attachment no longer than the threshold
\* of its list (8192 for attachments, 4096 for rag_attachments, the boundary
\* included) contributes its content verbatim as one piece; a longer one
\* contributes no piece equal to its content, only contents of chunks stored
\* for the tenant, or nothing.
C12_RouterThreshold ==
    (IsRouted /\ last.outcome = "ok") =>
        /\ Len(last.pieces) = Len(RoutedItems)
        /\ \A i \in 1..Len(RoutedItems) :
              IF i \in OverThreshold
              THEN \A k \in 1..Len(last.pieces[i]) :
                      /\ last.pieces[i][k] # RoutedItems[i].att.content
                      /\ \E c \in collections[str(last.user_id)] :
                            c.document = last.pieces[i][k]
              ELSE last.pieces[i] = <<RoutedItems[i].att.content>>

\* a call has returned in which a content of exactly the larger threshold's
\* length was inlined from attachments, and a content of the same length went
\* through retrieval from rag_attachments and contributed chunks
C12_Witness ==
    /\ IsRouted
    /\ last.outcome = "ok"
    /\ \E i \in 1..Len(last.attachments) :
          Len(last.attachments[i].content) = FORCED_ATTACHMENT_MAX_LEN
    /\ \E i \in OverThreshold :
          /\ Len(RoutedItems[i].att.content) = FORCED_ATTACHMENT_MAX_LEN
          /\ last.pieces[i] # <<>>

\* C13 as claimed: a failure of the upsert or of the query for one attachment
\* does not fail the call: _process_attachments returns, with the pieces of
\* the other attachments.
C13_RouterSurvivesFailure ==
    IsRouted => last.outcome = "ok"

\* the pieces of a joined context: the text between the separators
RECURSIVE SplitJoined(_, _)
SplitJoined(text, piece) ==
    IF text = <<>> THEN <<piece>>
    ELSE IF Len(text) >= 2 /\ SubSeq(text, 1, 2) = <<"\n", "\n">>
         THEN <<piece>> \o SplitJoined(SubSeq(text, 3, Len(text)), <<>>)
         ELSE SplitJoined(Tail(text), Append(piece, Head(text)))

\* the sequence that lists, attachment after attachment in processing order,
\* the pieces of each in their order
RECURSIVE InOrder(_, _)
InOrder(pieces, i) ==
    IF i > Len(pieces) THEN <<>> ELSE pieces[i] \o InOrder(pieces, i + 1)

\* C14: the context a call returns is absent exactly when no attachment
\* contributed a piece; otherwise it is the pieces joined by "\n\n": those of
\* attachments in input order, then those of rag_attachments in input order,
\* the chunk texts of one attachment adjacent and in retrieval order.
C14_RouterAggregation ==
    (IsRouted /\ last.outcome = "ok") =>
        /\ Len(last.pieces) = Len(last.attachments) + Len(last.rag_attachments)
        /\ \A i \in 1..Len(RoutedItems) :
              i \notin OverThreshold => last.pieces[i] = <<RoutedItems[i].att.content>>
        /\ (last.ret = <<>>) <=> (\A i \in 1..Len(last.pieces) : last.pieces[i] = <<>>)
        /\ last.ret # <<>> => SplitJoined(last.ret[1], <<>>) = InOrder(last.pieces, 1)

\* a call has returned a context made of an inlined rag attachment after two
\* retrieved chunks of an attachment
C14_Witness ==
    /\ IsRouted
    /\ last.outcome = "ok"
    /\ Len(last.attachments) = 1
    /\ Len(last.rag_attachments) = 1
    /\ Len(last.pieces[1]) = 2
    /\ Len(last.pieces[2]) = 1
    /\ last.pieces[2][1] # last.pieces[1][2]
    /\ Len(SplitJoined(last.ret[1], <<>>)) = 3

\* sum of the lengths of the inlined contents of the call
RECURSIVE InlinedLength(_)
InlinedLength(i) ==
    IF i > Len(RoutedItems) THEN 0
    ELSE (IF i \in OverThreshold THEN 0 ELSE Len(RoutedItems[i].att.content))
         + InlinedLength(i + 1)

ContextLength == IF last.ret = <<>> THEN 0 ELSE Len(last.ret[1])

\* C15 as claimed: the context is at most as long as the inlined contents
\* together plus k * chunk_size for every attachment that went through
\* retrieval, with k = 2.
C15_RouterSizeBound ==
    (IsRouted /\ last.outcome = "ok") =>
        ContextLength <= InlinedLength(1)
                         + DEFAULT_N_RESULTS * chunk_size * Cardinality(OverThreshold)

\* C15 as amended: the bound holds with the separators counted: two
\* characters between every two pieces of the context.
C15_RouterSizeBoundWithSeparators ==
    (IsRouted /\ last.outcome = "ok") =>
        ContextLength <= InlinedLength(1)
                         + DEFAULT_N_RESULTS * chunk_size * Cardinality(OverThreshold)
                         + 2 * (IF InOrder(last.pieces, 1) = <<>> THEN 0
                                ELSE Len(InOrder(last.pieces, 1)) - 1)

\* a call has returned a context of two inlined contents that reaches the
\* amended bound
C15_Witness ==
    /\ IsRouted
    /\ last.outcome = "ok"
    /\ Len(RoutedItems) = 2
    /\ OverThreshold = {}
    /\ ContextLength = InlinedLength(1) + 2

\* C16 as claimed: after a call with a non-empty query has returned, every
\* chunk of the content of every attachment that went through retrieval is
\* stored for the tenant under the call's project and the attachment's id.
C16_RouterStoresCurrentContent ==
    (IsRouted /\ last.outcome = "ok" /\ Strip(last.text) # <<>>) =>
        \A i \in OverThreshold :
            \A k \in 1..Len(prepare_document(last.project_id, RoutedItems[i].att.id,
                                             Strip(RoutedItems[i].att.content)).ids) :
                \E c \in collections[str(last.user_id)] :
                    /\ c.id = prepare_document(last.project_id, RoutedItems[i].att.id,
                                               Strip(RoutedItems[i].att.content)).str_ids[k]
                    /\ c.document =
                          prepare_document(last.project_id, RoutedItems[i].att.id,
                                           Strip(RoutedItems[i].att.content)).contents[k]

\* C17 as claimed: every piece contributed by an attachment that went through
\* retrieval is the content of a chunk stored for the tenant under the call's
\* project and the attachment's id as document.
C17_RouterRetrievalScope ==
    (IsRouted /\ last.outcome = "ok") =>
        \A i \in OverThreshold :
            \A k \in 1..Len(last.pieces[i]) :
                \E c \in collections[str(last.user_id)] :
                    /\ c.document = last.pieces[i][k]
                    /\ c.metadata.project_id = str(last.project_id)
                    /\ c.metadata.document_id = str(RoutedItems[i].att.id)

\* the stored chunks that match the filter of the query the call issued:
\* retrieve filters by the ids it was given, add_document_and_query and
\* store_and_retrieve by the document id
MatchingTheFilter ==
    IF str(last.user_id) \notin DOMAIN collections THEN {}
    ELSE IF last.op = "retrieve"
    THEN {c \in collections[str(last.user_id)] :
            InScope(c, last.project_id, last.document_id)}
    ELSE {c \in collections[str(last.user_id)] :
            c.metadata.document_id = str(last.document_id)}

\* C18: retrieve, add_document_and_query and store_and_retrieve called with
\* n_results = n >= 1 return at most n texts, and at most as many texts as
\* there are stored chunks matching the filter.
C18_BoundedResults ==
    (last.op \in QueryOps /\ last.outcome = "ok") =>
        /\ last.n_results >= 1
        /\ Len(last.ret) <= last.n_results
        /\ Len(last.ret) <= Cardinality(MatchingTheFilter)

\* a query has returned exactly n texts while more than n stored chunks
\* match its filter
C18_Witness ==
    /\ last.op \in QueryOps
    /\ last.outcome = "ok"
    /\ Len(last.ret) = last.n_results
    /\ Cardinality(MatchingTheFilter) > last.n_results

\* the step is an add_document_to_project of a non-empty text no longer than
\* the chunk size, for a tenant that holds no chunk of the document
SingleChunkUpsert ==
    /\ last'.op = "add_document_to_project"
    /\ last'.text # <<>>
    /\ Len(last'.text) <= chunk_size
    /\ str(last'.user_id) \in DOMAIN collections =>
          \A c \in collections[str(last'.user_id)] :
              c.metadata.document_id # str(last'.document_id)

\* C19 as claimed: add_document_to_project(U, P, D, text) of a non-empty text
\* no longer than the chunk size, on a tenant holding no other chunk of D,
\* returns exactly one chunk id, and a following retrieve(U, q, P, D, 1)
\* returns exactly one text, the content of that chunk.
C19_SingleChunkEndToEnd ==
    [][SingleChunkUpsert =>
         /\ last'.outcome = "ok"
         /\ Len(last'.ret) = 1
         /\ \A r \in retrieve(collections', last'.user_id, last'.project_id,
                               last'.document_id, 1) :
               /\ r.outcome = "ok"
               /\ Len(r.ret) = 1
               /\ \E c \in collections'[str(last'.user_id)] :
                     c.id = str_id(last'.ret[1]) /\ c.document = r.ret[1]]_vars

\* every record stored by RAG.add_note_to_project, in any collection
StoredByRAG == UNION {collections[n] : n \in DOMAIN collections}

\* C20 as claimed, for the chunks RAG.split_documents has given an id: two
\* stored chunks have the same id exactly when they have the same content and
\* the same project, and the id of a chunk is the id any process gives to
\* its content.
C20_ContentAddressedId ==
    /\ \A c1, c2 \in StoredByRAG :
          (c1.id = c2.id) <=> /\ c1.document = c2.document
                              /\ c1.metadata.project_id = c2.metadata.project_id
    /\ \A c \in StoredByRAG :
          \A seed \in HashSeeds : c.id = str_id(py_hash(seed, c.document))

\* C21 as claimed: a retrieve for an existing tenant with a scope (a project
\* id, a document id or both) never raises: when the backend query fails
\* it returns the empty list.
C21_RetrieveNeverRaises ==
    (/\ last.op = "retrieve"
     /\ str(last.user_id) \in DOMAIN collections
     /\ (last.project_id # None \/ last.document_id # None))
        => last.outcome = "ok"

\* C22 as claimed: the splitter, on the text of an upsert, produces at least
\* one chunk when the text is non-empty (whitespace-only included) and none,
\* without error, when it is empty; the start offsets do not decrease along
\* the list; no chunk is longer than chunk_size; chunk_overlap < chunk_size.
C22_ChunkingPolicy ==
    last.op = "add_document_to_project" =>
        LET parts == splitter_split_documents(last.text)
        IN  /\ last.text # <<>> => Len(parts) >= 1
            /\ last.text = <<>> => parts = <<>>
            /\ \A i, j \in 1..Len(parts) :
                  i < j => parts[i].start_index <= parts[j].start_index
            /\ \A i \in 1..Len(parts) : Len(parts[i].page_content) <= chunk_size
            /\ chunk_overlap < chunk_size

UpsertOps == {"add_document_to_project", "add_document_and_query", "store_and_retrieve"}

\* the records the step has added to the collection of that name
NewlyStored(n) ==
    collections'[n] \ (IF n \in DOMAIN collections THEN collections[n] ELSE {})

\* the id derived from the record's content and its two metadata ids
HasDerivedId(c) ==
    c.id = str_id(uuid5(c.document \o c.metadata.project_id \o c.metadata.document_id))

WrittenByUpsert ==
    \A n \in DOMAIN collections' :
        \A c \in NewlyStored(n) :
            /\ last'.op \in UpsertOps
            /\ n = str(last'.user_id)
            /\ c.metadata.project_id = str(last'.project_id)
            /\ c.metadata.document_id = str(last'.document_id)
            /\ Contains(last'.text, c.document)

\* C23: every chunk stored for a tenant was written by add_document_to_project,
\* add_document_and_query or store_and_retrieve called for that tenant, with
\* the call's project and document as its metadata and a slice of the
\* call's text as its content, and its id is the one derived from its
\* content, project_id and document_id.
C23_StoredChunkInvariant ==
    /\ [][WrittenByUpsert]_vars
    /\ [](\A n \in DOMAIN collections : \A c \in collections[n] : HasDerivedId(c))

\* an upsert has returned for a tenant that holds chunks of two documents
\* of two projects
C23_Witness ==
    /\ last.op \in UpsertOps
    /\ last.outcome = "ok"
    /\ \E c1, c2 \in collections[str(last.user_id)] :
          /\ c1.metadata.document_id = str(last.document_id)
          /\ c1.metadata.project_id = str(last.project_id)
          /\ c2.metadata.document_id # c1.metadata.document_id
          /\ c2.metadata.project_id # c1.metadata.project_id

\* the records of one document of one project in a collection
ChunksOf(coll, project_id, document_id) ==
    {c \in coll : /\ c.metadata.project_id = str(project_id)
                  /\ c.metadata.document_id = str(document_id)}

\* the records an upsert of the text writes
RecordsOf(project_id, document_id, text) ==
    LET doc == prepare_document(project_id, document_id, text)
    IN  {[id |-> doc.str_ids[i], document |-> doc.contents[i], metadata |-> doc.metas[i]] :
           i \in 1..Len(doc.ids)}

\* the chunks of a set of records: id and content (a chunk written twice
\* keeps the start_index it was first stored with)
Chunks(records) == {<<c.id, c.document>> : c \in records}

\* an upsert over what is stored: the old chunks stay and can be retrieved
KeepsOldChunks ==
    (/\ last'.op = "add_document_to_project"
     /\ last'.outcome = "ok"
     /\ str(last'.user_id) \in DOMAIN collections)
        => LET n   == str(last'.user_id)
               old == ChunksOf(collections[n], last'.project_id, last'.document_id)
           IN  /\ old \subseteq collections'[n]
               /\ Chunks(ChunksOf(collections'[n], last'.project_id, last'.document_id))
                    = Chunks(old) \cup
                      Chunks(RecordsOf(last'.project_id, last'.document_id, last'.text))
               /\ \A c \in old :
                     \E r \in retrieve(collections', last'.user_id, last'.project_id,
                                        last'.document_id, 1) :
                         r.outcome = "ok" /\ r.ret = <<c.document>>

\* an upsert that follows an invalidation stores the chunks of its text only
FreshAfterInvalidation ==
    (last'.op = "invalidate_document" /\ last'.outcome = "ok" /\ last'.ret = TRUE)
        => \A p \in UUIDs, B \in DocTexts :
              \A r \in add_document_to_project(collections', last'.user_id, p,
                                                last'.document_id, B) :
                  r.outcome = "ok" =>
                      {c \in r.cols[str(last'.user_id)] :
                         c.metadata.document_id = str(last'.document_id)}
                        = RecordsOf(p, last'.document_id, B)

\* C24: an add_document_to_project(t, p, d, B) that follows one with another
\* text A, with no invalidation in between, leaves every chunk of A stored
\* and retrievable by a query scoped to d: the index holds the union of both
\* chunk sets; after invalidate_document(t, d) the next upsert leaves only
\* the chunks of its own text stored for d.
C24_OrphansOnContentChange ==
    /\ [][KeepsOldChunks]_vars
    /\ [][FreshAfterInvalidation]_vars

\* an upsert has returned and the document holds a chunk of an earlier
\* text that is not a chunk of the text just written
C24_Witness ==
    /\ last.op = "add_document_to_project"
    /\ last.outcome = "ok"
    /\ last.ret # <<>>
    /\ \E c \in ChunksOf(collections[str(last.user_id)], last.project_id, last.document_id) :
          \A i \in 1..Len(last.ret) : c.id # str_id(last.ret[i])

\* C27 as claimed: a retrieve with exactly one of project_id and document_id
\* passes that single equality to the backend, is accepted, and returns
\* chunks matching that one filter: as many as asked for, or all of them
\* when there are fewer.
C27_SingleFilterAccepted ==
    (/\ last.op = "retrieve"
     /\ (last.project_id = None) # (last.document_id = None)
     /\ str(last.user_id) \in DOMAIN collections)
        => /\ last.outcome = "ok"
           /\ DrawnFrom(last.ret, MatchingTheFilter)
           /\ Len(last.ret) = IF Cardinality(MatchingTheFilter) < last.n_results
                               THEN Cardinality(MatchingTheFilter) ELSE last.n_results

\* C28 as claimed: the backend client is established once, before the
\* operations, and reused: no operation establishes a client of its own.
C28_NoClientPerOperation ==
    last.op # "none" => \A i \in 1..Len(last.calls) : last.calls[i] # "AsyncHttpClient"

\* C29 as claimed: the ids _prepare_document builds for one
\* add_document_to_project are pairwise distinct, whatever the text, and as
\* many chunks are stored for the document as the splitter produced.
C29_DistinctIdsInOneUpsert ==
    last.op = "add_document_to_project" =>
        LET doc == prepare_document(last.project_id, last.document_id, last.text)
        IN  /\ ~HasDuplicates(doc.str_ids)
            /\ Len(doc.str_ids) > 0 =>
                  /\ last.outcome = "ok"
                  /\ Cardinality({c \in collections[str(last.user_id)] :
                                    c.id \in Range(doc.str_ids)})
                       = Len(splitter_split_documents(last.text))

\* ------------- note generation (llm.py:127-142, text.py:129-139, 211-251)
\* Python values that are a text or an exception object
Str(text) == [type |-> "str", value |-> text]
ValueErrorObject(message) == [type |-> "ValueError", value |-> message]
NoValue == [type |-> "NoneType", value |-> <<>>]

\* the texts of the files, the instructions (<<>> stands for None and ""),
\* and what the language model may answer
NoteTexts == { <<"a">>, <<" ", "a">> }
FileLists == UNION {[1..n -> NoteTexts] : n \in 0..2}
Instructions == { <<>>, <<"i">> }
LLMReplies == { <<"x">>, <<"x", " ">> }

\* TextPostProcessing._invoke_llm_simple: one request; the answer's content,
\* or RuntimeError for a finish_reason other than "stop" or for a refusal
invoke_llm_simple(messages) ==
    {[outcome |-> "ok", error |-> "none", ret |-> Str(reply), llm |-> <<messages>>] :
        reply \in LLMReplies}
    \cup
    {[outcome |-> "raised", error |-> e, ret |-> NoValue, llm |-> <<messages>>] :
        e \in {"RuntimeError: unsuccessfull generation", "RuntimeError: model refusal"}}

\* TextPostProcessing.create_conspect_multi
create_conspect_multi(texts, instructions) ==
    IF texts = <<>>
    THEN {[outcome |-> "ok", error |-> "none",
           ret |-> ValueErrorObject("no files supplied"), llm |-> <<>>]}
    ELSE invoke_llm_simple(
             [role |-> "user",
              contents |-> [i \in 1..Len(texts) |-> Strip(texts[i])],
              user_instructions |-> IF instructions # <<>> THEN Str(instructions)
                                    ELSE Str(<<"No instructions provided.">>)])

\* TextPostProcessing.make_title: text.strip() exists for a str only
make_title(text) ==
    IF text.type # "str"
    THEN {[outcome |-> "raised", error |-> "AttributeError", ret |-> NoValue, llm |-> <<>>]}
    ELSE invoke_llm_simple([role |-> "user", contents |-> <<Strip(text.value)>>,
                            user_instructions |-> NoValue])

\* a call of LLMTools.generate_note about to await create_conspect_multi
NoteTask(files, custom_description) ==
    [op |-> "generate_note", files |-> files, custom_description |-> custom_description,
     pc |-> "create_conspect_multi", content |-> NoValue, title |-> NoValue,
     outcome |-> "running", error |-> "none", llm |-> <<>>]

StartGenerateNote ==
    /\ tasks = <<>>
    /\ \E files \in FileLists, d \in Instructions :
          tasks' = <<NoteTask(files, d)>>
    /\ UNCHANGED <<collections, last, hashseed>>

\* llm.py:139
NoteCreateConspect ==
    /\ tasks # <<>>
    /\ tasks[1].pc = "create_conspect_multi"
    /\ \E r \in create_conspect_multi(tasks[1].files, tasks[1].custom_description) :
          tasks' = <<[tasks[1] EXCEPT
                        !.pc = IF r.outcome = "ok" THEN "make_title" ELSE "done",
                        !.content = r.ret,
                        !.outcome = IF r.outcome = "ok" THEN "running" ELSE "raised",
                        !.error = r.error,
                        !.llm = @ \o r.llm]>>
    /\ UNCHANGED <<collections, last, hashseed>>

\* llm.py:140-142
NoteMakeTitle ==
    /\ tasks # <<>>
    /\ tasks[1].pc = "make_title"
    /\ \E r \in make_title(tasks[1].content) :
          tasks' = <<[tasks[1] EXCEPT
                        !.pc = "done",
                        !.title = r.ret,
                        !.outcome = r.outcome,
                        !.error = r.error,
                        !.llm = @ \o r.llm]>>
    /\ UNCHANGED <<collections, last, hashseed>>

\* the caller takes the result or the exception
NoteReturn ==
    /\ tasks # <<>>
    /\ tasks[1].pc = "done"
    /\ tasks' = <<>>
    /\ UNCHANGED <<collections, last, hashseed>>

NextNote ==
    \/ StartGenerateNote
    \/ NoteCreateConspect
    \/ NoteMakeTitle
    \/ NoteReturn

SpecNote == Init /\ [][NextNote]_vars

\* C30 as claimed: generate_note with no files ends at create_conspect_multi
\* with ValueError raised, without a request to the language model, and no
\* value that is not a text reaches make_title.
C30_EmptyNoteInputRaises ==
    \A i \in 1..Len(tasks) :
        /\ (tasks[i].files = <<>> /\ tasks[i].pc # "create_conspect_multi") =>
              /\ tasks[i].pc = "done"
              /\ tasks[i].outcome = "raised"
              /\ tasks[i].error = "ValueError"
              /\ tasks[i].llm = <<>>
        /\ tasks[i].pc = "make_title" => tasks[i].content.type = "str"

\* ---------------------- two operations in flight together (vdb.py:48-327)
\* Every operation awaits the backend twice: first for the collection
\* (get_collection, or get_or_create_collection for an upsert), then for the
\* request on it.  Another coroutine can run between the two awaits.

\* documents of the pairs: document k belongs to project k
PairKeys == UUIDs
PairTexts == { <<"a">>, <<"a", "a">> }
PairIdLists == {prepare_document(1, 1, <<"a">>).ids}

Operation(op, user_id, project_id, document_id, text, n_results, embedding_ids) ==
    [op |-> op, user_id |-> user_id, project_id |-> project_id,
     document_id |-> document_id, text |-> text, n_results |-> n_results,
     embedding_ids |-> embedding_ids]

PairOps ==
    {Operation("add_document_to_project", u, k, k, t, 0, <<>>) :
        u \in UUIDs, k \in PairKeys, t \in PairTexts}
    \cup {Operation("store_and_retrieve", u, k, k, t, 1, <<>>) :
        u \in UUIDs, k \in PairKeys, t \in PairTexts}
    \cup {Operation("retrieve", u, k, k, <<>>, 1, <<>>) : u \in UUIDs, k \in PairKeys}
    \cup {Operation("invalidate_document", u, None, k, <<>>, 0, <<>>) :
        u \in UUIDs, k \in PairKeys}
    \cup {Operation("delete_project", u, k, None, <<>>, 0, <<>>) :
        u \in UUIDs, k \in PairKeys}
    \cup {Operation("delete_embeddings", u, None, None, <<>>, 0, ids) :
        u \in UUIDs, ids \in PairIdLists}
    \cup {Operation("delete_user", u, None, None, <<>>, 0, <<>>) : u \in UUIDs}

\* the operation run from its first line to its return with nothing in between
whole(cols, o) ==
    CASE o.op = "add_document_to_project" ->
           add_document_to_project(cols, o.user_id, o.project_id, o.document_id, o.text)
      [] o.op = "store_and_retrieve" ->
           store_and_retrieve(cols, o.user_id, o.project_id, o.document_id, o.text,
                              o.n_results)
      [] o.op = "retrieve" ->
           retrieve(cols, o.user_id, o.project_id, o.document_id, o.n_results)
      [] o.op = "invalidate_document" -> invalidate_document(cols, o.user_id, o.document_id)
      [] o.op = "delete_project" -> delete_project(cols, o.user_id, o.project_id)
      [] o.op = "delete_embeddings" -> delete_embeddings(cols, o.user_id, o.embedding_ids)
      [] o.op = "delete_user" -> delete_user(cols, o.user_id)

\* delete_user racing another call for the same tenant
Racing(o1, o2) ==
    /\ o1.op = "delete_user"
    /\ o2.user_id = o1.user_id
    /\ o2.op # "add_document_to_project"

\* the project or document an operation is about
KeyOf(o) == IF o.project_id # None THEN o.project_id ELSE o.document_id

\* calls for distinct tenants, or for distinct documents of distinct
\* projects of one tenant that exists
Independent(o1, o2, cols) ==
    /\ {o1.op, o2.op} \subseteq {"add_document_to_project", "retrieve",
                                  "invalidate_document", "delete_project", "delete_user"}
    /\ \/ o1.user_id < o2.user_id
       \/ /\ o1.user_id = o2.user_id
          /\ str(o1.user_id) \in DOMAIN cols
          /\ "delete_user" \notin {o1.op, o2.op}
          /\ KeyOf(o1) < KeyOf(o2)

\* a call in flight: where it stands, the collection handle it holds
\* ("none" before the first await, then "held", "absent" when there was no
\* collection, "stale" once the collection it was given has been deleted),
\* and the backend as it was when the pair was started
PairTask(o, base) ==
    [op |-> o.op, user_id |-> o.user_id, project_id |-> o.project_id,
     document_id |-> o.document_id, text |-> o.text, n_results |-> o.n_results,
     embedding_ids |-> o.embedding_ids,
     pc |-> "first", handle |-> "none",
     outcome |-> "running", error |-> "none", ret |-> <<>>, base |-> base]

\* an upsert that runs alone, before the pair
Populate ==
    /\ tasks = <<>>
    /\ \E u \in UUIDs, k \in PairKeys, t \in PairTexts :
          \E r \in add_document_to_project(collections, u, k, k, t) :
              /\ r.outcome = "ok"
              /\ Fits(r.cols)
              /\ collections' = r.cols
    /\ UNCHANGED <<last, hashseed, tasks>>

StartPair ==
    /\ tasks = <<>>
    /\ \E o1 \in PairOps, o2 \in PairOps :
          /\ Racing(o1, o2) \/ Independent(o1, o2, collections)
          /\ tasks' = <<PairTask(o1, collections), PairTask(o2, collections)>>
    /\ UNCHANGED <<collections, last, hashseed>>

\* what the call returns without a second await when it found no collection
NoCollectionResult(t) == IF t.op = "retrieve" THEN <<>> ELSE FALSE

\* first await: get_or_create_collection (vdb.py:51-55) for an upsert,
\* get_collection (vdb.py:63-72, 134-139) for every other operation
PairFirstAwait ==
    \E i \in DOMAIN tasks :
        /\ tasks[i].pc = "first"
        /\ IF tasks[i].op = "add_document_to_project"
           THEN /\ collections' = get_or_create_collection(collections, str(tasks[i].user_id))
                /\ tasks' = [tasks EXCEPT ![i].pc = "second", ![i].handle = "held"]
           ELSE /\ UNCHANGED collections
                /\ IF try_get_chroma_collection(collections, tasks[i].user_id)
                   THEN tasks' = [tasks EXCEPT ![i].pc = "second", ![i].handle = "held"]
                   ELSE IF tasks[i].op = "store_and_retrieve"
                   THEN tasks' = [tasks EXCEPT ![i].pc = "second", ![i].handle = "absent"]
                   ELSE tasks' = [tasks EXCEPT ![i].pc = "done", ![i].handle = "absent",
                                               ![i].outcome = "ok",
                                               ![i].ret = NoCollectionResult(tasks[i])]
        /\ UNCHANGED <<last, hashseed>>

\* the other calls' handles after task i has deleted the collection of name
Invalidated(i, name) ==
    [j \in DOMAIN tasks |->
       IF j # i /\ str(tasks[j].user_id) = name /\ tasks[j].handle = "held"
       THEN [tasks[j] EXCEPT !.handle = "stale"] ELSE tasks[j]]

Ended(t, r) == [t EXCEPT !.pc = "done", !.outcome = r.outcome, !.error = r.error,
                         !.ret = r.ret]

\* second await of delete_user: chroma.delete_collection(name) (vdb.py:141),
\* by name, outside the try block; the backend answers a name it does not
\* know with an exception
PairDeleteCollection ==
    \E i \in DOMAIN tasks :
        /\ tasks[i].pc = "second"
        /\ tasks[i].op = "delete_user"
        /\ IF str(tasks[i].user_id) \in DOMAIN collections
           THEN /\ collections' = delete_collection(collections, str(tasks[i].user_id))
                /\ tasks' = [Invalidated(i, str(tasks[i].user_id)) EXCEPT
                                ![i] = Ended(@, Returned(collections', TRUE, <<>>))]
           ELSE /\ UNCHANGED collections
                /\ tasks' = [tasks EXCEPT
                                ![i] = Ended(@, Raised(collections, "collection does not exist", <<>>))]
        /\ UNCHANGED <<last, hashseed>>

\* second await of the other operations: the request on the collection
\* handle, which the backend refuses when that collection has been deleted;
\* store_and_retrieve that found no collection goes on to
\* add_document_and_query (vdb.py:322-327)
PairSecondAwait ==
    \E i \in DOMAIN tasks :
        /\ tasks[i].pc = "second"
        /\ tasks[i].op # "delete_user"
        /\ \E r \in (IF tasks[i].handle = "stale"
                      THEN {Raised(collections, "collection does not exist", <<>>)}
                      ELSE IF tasks[i].handle = "absent"
                      THEN add_document_and_query(collections, tasks[i].user_id,
                                                  tasks[i].project_id, tasks[i].document_id,
                                                  Strip(tasks[i].text), tasks[i].n_results)
                      ELSE whole(collections, tasks[i])) :
              /\ Fits(r.cols)
              /\ collections' = r.cols
              /\ tasks' = [tasks EXCEPT ![i] = Ended(@, r)]
        /\ UNCHANGED <<last, hashseed>>

BothDone == Len(tasks) = 2 /\ tasks[1].pc = "done" /\ tasks[2].pc = "done"

\* both callers have their results
PairReturn ==
    /\ BothDone
    /\ tasks' = <<>>
    /\ UNCHANGED <<collections, last, hashseed>>

NextPairs ==
    \/ Populate
    \/ StartPair
    \/ PairFirstAwait
    \/ PairDeleteCollection
    \/ PairSecondAwait
    \/ PairReturn

SpecPairs == Init /\ [][NextPairs]_vars

\* C25 as claimed: when delete_user(t) runs together with another delete_user,
\* delete_project, invalidate_document, delete_embeddings, retrieve or
\* store_and_retrieve for the same tenant, no call ends with an exception in
\* any interleaving, and of two delete_user calls for an existing tenant
\* exactly one returns True.
C25_DeletionRacesNeverRaise ==
    (Len(tasks) = 2 /\ Racing(tasks[1], tasks[2])) =>
        /\ \A i \in 1..2 : tasks[i].outcome # "raised"
        /\ (/\ BothDone
            /\ tasks[2].op = "delete_user"
            /\ str(tasks[1].user_id) \in DOMAIN tasks[1].base)
              => Cardinality({i \in 1..2 : tasks[i].ret = TRUE}) = 1

\* the call ended as the run r of its operation did
EndedAs(t, r) ==
    /\ t.outcome = r.outcome
    /\ t.error = r.error
    /\ t.ret = r.ret

\* the pair ended as some run of a and then b from the backend they started on
AsOneAfterTheOther(a, b) ==
    \E ra \in whole(a.base, a) :
        \E rb \in whole(ra.cols, b) :
            /\ EndedAs(a, ra)
            /\ EndedAs(b, rb)
            /\ collections = rb.cols

\* C26: operations issued together for distinct tenants, or for distinct
\* documents of distinct projects of one existing tenant, end in every
\* interleaving of their backend steps with the return values and the
\* stored chunks of running them one after the other, in either order.
C26_IndependentWorkCommutes ==
    (BothDone /\ Independent(tasks[1], tasks[2], tasks[1].base)) =>
        /\ AsOneAfterTheOther(tasks[1], tasks[2])
        /\ AsOneAfterTheOther(tasks[2], tasks[1])

\* an upsert and a delete_project for two projects of one tenant have both
\* ended, each having changed the tenant's collection
C26_Witness ==
    /\ BothDone
    /\ Independent(tasks[1], tasks[2], tasks[1].base)
    /\ tasks[1].user_id = tasks[2].user_id
    /\ tasks[1].op = "add_document_to_project"
    /\ tasks[2].op = "delete_project"
    /\ \E c \in tasks[1].base[str(tasks[1].user_id)] :
          c.metadata.project_id = str(tasks[2].project_id)
    /\ \E c \in collections[str(tasks[1].user_id)] :
          c.metadata.project_id = str(tasks[1].project_id)

====
